---- MODULE Spec2Model ----
(***************************************************************************)
(* State-machine model of two panels of the editor:                        *)
(*   - the project search model/view/bar (crates/search2/src/             *)
(*     project_search.rs), specification Spec;                            *)
(*   - the feedback modal (crates/feedback2/src/feedback_modal.rs),       *)
(*     specification FeedbackSpec.                                        *)
(* Every `this.update(..)` closure of a spawned task is one atomic step;   *)
(* the awaits between them are the points where other steps interleave.    *)
(* Observers notified by cx.notify() run before the step ends (effects are *)
(* flushed at the end of the outermost update).                            *)
(***************************************************************************)
EXTENDS Integers, Sequences, FiniteSets, TLC

\* ------------------------------------------------------------------ bounds
\* Number of search invocations explored (search_id is a usize counter).
MaxSearches == 2
\* The same, where the filter editors and the search options are edited too.
MaxInputSearches == 1
\* Number of ranges the collaborator streams for one search.
MaxRanges == 2
\* Number of consent tasks of one view that may be alive at once.
MaxConsentTasks == 1
\* Number of futures FeedbackModal::submit spawns.
MaxSubmits == 2
\* The same while the validation of the form is studied.
MaxFormSubmits == 1

\* ------------------------------------------------------------ option type
\* Option<T>: None is the empty set, Some(x) the singleton {x}.
None == {}
Some(x) == {x}

\* ------------------------------------------------------------ input sets
\* Query strings typed into the query editor; "(" is not a valid regex.
Queries == {"a", "("}
\* Include / exclude editor texts, as the comma-separated entries they hold:
\* "ok" a well-formed glob, "bad" a malformed one, "blank" only whitespace.
\* The (include, exclude) pairs typed into the two filter editors.
FilterTexts == {<<<<>>, <<>>>>, <<<<"blank", "ok">>, <<>>>>, <<<<"ok", "bad">>, <<>>>>,
                <<<<>>, <<"bad">>>>, <<<<"ok", "bad">>, <<"bad">>>>}
SearchModes == {"Text", "Regex", "Semantic"}
Options == {"CASE_SENSITIVE", "INCLUDE_IGNORED"}

VARIABLES
    \* ProjectSearch (model)
    pending_search,     \* Option<Task>: the id of the task whose handle is held
    match_ranges,       \* Vec<Range<Anchor>>: [sid, n] = n-th range of search sid
    active_query,       \* Option<SearchQuery>
    search_id,          \* usize
    search_history,     \* SearchHistory: [history, selected]
    no_results,         \* Option<bool>
    \* ProjectSearchView
    query_editor,
    included_files_editor,
    excluded_files_editor,
    semantic_state,     \* Option<SemanticState>
    semantic_permissioned, \* Option<bool>
    search_options,
    panels_with_errors,
    active_match_index, \* Option<usize>
    view_search_id,     \* ProjectSearchView::search_id
    query_editor_was_focused,
    filters_enabled,
    current_mode,
    cursor,             \* newest selection head of the results editor, as a match position
    focus,              \* the editor that has the keyboard focus
    \* collaborators and executor
    semantic_index,     \* SemanticIndex::global(cx) is Some
    previously_indexed, \* SemanticIndex::project_previously_indexed(project)
    indexing_started,   \* SemanticIndex::index_project has been called
    search_tasks,       \* futures spawned by ProjectSearch::search / semantic_search
    consent_tasks,      \* detached futures spawned by activate_search_mode(Semantic)
    search_prompt,      \* Option: the consent prompt on screen
    search_budget,      \* the number of search invocations explored
    \* FeedbackModal
    feedback_editor,    \* text of the feedback editor: [lead, core, trail] lengths
    email_address_editor, \* text of the email editor, a sequence of characters
    submission_state,   \* Option<SubmissionState>
    dismiss_modal,      \* bool
    character_count,    \* i32
    \* workspace, window and executor around the modal
    modal_open,         \* the modal is the workspace's active modal
    needs_render,       \* the window was notified and has not been drawn since
    submit_tasks,       \* detached futures spawned by FeedbackModal::submit
    submissions,        \* the number of futures FeedbackModal::submit has spawned
    error_prompts,      \* the 'Feedback failed to submit' dialogs on screen
    discard_prompt,     \* the 'Discard feedback?' prompt is on screen
    kv_store,           \* KEY_VALUE_STORE entry "email_address": Option<String>
    error_log,          \* the number of log::error! records of failed submissions
    submit_budget,      \* the number of submit futures explored
    \* Workspace
    items               \* the other project search views of the pane, each with its model

search_vars == <<pending_search, match_ranges, active_query, search_id, search_history,
                 no_results, query_editor, included_files_editor, excluded_files_editor,
                 semantic_state, semantic_permissioned, search_options, panels_with_errors,
                 active_match_index, view_search_id, query_editor_was_focused,
                 filters_enabled, current_mode, cursor, focus, semantic_index, previously_indexed,
                 indexing_started, search_tasks, consent_tasks, search_prompt, search_budget>>

feedback_vars == <<feedback_editor, email_address_editor, submission_state, dismiss_modal,
                   character_count, modal_open, needs_render, submit_tasks, submissions,
                   error_prompts, discard_prompt, kv_store, error_log, submit_budget>>

workspace_vars == <<items>>

vars == <<search_vars, feedback_vars, workspace_vars>>

\* ----------------------------------------------------------- pure helpers
Min(a, b) == IF a < b THEN a ELSE b

\* ProjectSearchView::parse_path_matches: split on ',', trim, drop the empty
\* entries, PathMatcher::new on the rest; the first malformed glob is an Err.
RECURSIVE parse_path_matches(_)
parse_path_matches(text) ==
    IF text = <<>> THEN [ok |-> TRUE, globs |-> <<>>]
    ELSE IF Head(text) = "blank" THEN parse_path_matches(Tail(text))
    ELSE IF Head(text) = "bad" THEN [ok |-> FALSE, globs |-> <<>>]
    ELSE LET rest == parse_path_matches(Tail(text))
         IN  [ok |-> rest.ok, globs |-> IF rest.ok THEN <<Head(text)>> \o rest.globs ELSE <<>>]

\* SearchQuery::regex fails on a malformed pattern, SearchQuery::text does not
\* fail on any of the inputs explored.
QueryParses(text, mode) == IF mode = "Regex" THEN text # "(" ELSE TRUE

\* The panel at which build_search_query stops, None when the query is built.
\* The fields are parsed in the order include, exclude, query.
FailingPanel(inc, exc, text, mode) ==
    IF ~parse_path_matches(inc).ok THEN Some("Include")
    ELSE IF ~parse_path_matches(exc).ok THEN Some("Exclude")
    ELSE IF ~QueryParses(text, mode) THEN Some("Query")
    ELSE None

\* ProjectSearchView::build_search_query, the query it returns.
BuiltQuery(inc, exc, text, mode, options) ==
    IF FailingPanel(inc, exc, text, mode) # None THEN None
    ELSE Some([text |-> text,
               regex |-> (mode = "Regex"),
               options |-> options,
               include |-> parse_path_matches(inc).globs,
               exclude |-> parse_path_matches(exc).globs])

\* build_search_query that returns early without marking the panel.
PanelsAfterBuildUnmarked(errs, inc, exc, text, mode) ==
    IF FailingPanel(inc, exc, text, mode) # None THEN errs
    ELSE errs \ {"Include", "Exclude", "Query"}

\* ProjectSearchView::build_search_query, its effect on panels_with_errors.
PanelsAfterBuild(errs, inc, exc, text, mode) ==
    IF ~parse_path_matches(inc).ok THEN errs \cup {"Include"}
    ELSE IF ~parse_path_matches(exc).ok THEN (errs \ {"Include"}) \cup {"Exclude"}
    ELSE IF ~QueryParses(text, mode) THEN (errs \ {"Include", "Exclude"}) \cup {"Query"}
    ELSE errs \ {"Include", "Exclude", "Query"}

\* SearchHistory::add
HistoryAdd(h, s) ==
    [history |-> Append(h.history, s), selected |-> Some(Len(h.history) + 1)]

\* editor::items::active_match_index: None without matches, else the match at
\* the cursor, clamped to the last one.
ActiveMatchIndex(ranges, c) ==
    IF ranges = <<>> THEN None ELSE Some(Min(c, Len(ranges) - 1))

\* A Task handle whose drop leaves its future running.
DropTasksDetached(tasks, dropped) == tasks

\* Dropping a Task handle cancels its future: the futures left once the
\* handles in `dropped` are gone.  (Tasks that must outlive their handle are
\* detached instead.)
DropTasks(tasks, dropped) == {t \in tasks : t.id \notin dropped}

\* ------------------------------------------------------------------- Init
\* No feedback modal has been opened: nothing is stored under "email_address"
\* and FeedbackModal::submit has spawned nothing.
FeedbackClosed ==
    /\ feedback_editor = [lead |-> 0, core |-> 0, trail |-> 0]
    /\ email_address_editor = <<>>
    /\ submission_state = None
    /\ dismiss_modal = FALSE
    /\ character_count = 0
    /\ modal_open = FALSE
    /\ needs_render = FALSE
    /\ submit_tasks = {}
    /\ submissions = 0
    /\ error_prompts = 0
    /\ discard_prompt = FALSE
    /\ kv_store = None
    /\ error_log = 0
    /\ submit_budget = MaxSubmits

\* A view opened by ProjectSearchView::deploy on a fresh ProjectSearch model
\* (ProjectSearch::new, ProjectSearchView::new with default settings,
\* focus_query_editor).
SearchInit ==
    /\ pending_search = None
    /\ match_ranges = <<>>
    /\ active_query = None
    /\ search_id = 0
    /\ search_history = [history |-> <<>>, selected |-> None]
    /\ no_results = None
    /\ query_editor = ""
    /\ included_files_editor = <<>>
    /\ excluded_files_editor = <<>>
    /\ semantic_state = None
    /\ semantic_permissioned = None
    /\ search_options = {}
    /\ panels_with_errors = {}
    /\ active_match_index = None
    /\ view_search_id = 0
    /\ query_editor_was_focused = TRUE
    /\ filters_enabled = FALSE
    /\ current_mode = "Text"
    /\ cursor = 0
    /\ focus = "query"
    /\ semantic_index \in BOOLEAN
    /\ previously_indexed \in BOOLEAN
    /\ indexing_started = FALSE
    /\ search_tasks = {}
    /\ consent_tasks = <<>>
    /\ search_prompt = None
    /\ search_budget = MaxSearches
    /\ items = <<>>

Init == SearchInit /\ FeedbackClosed

\* ------------------------------------------------- ProjectSearchView parts
\* model_changed that leaves the focus where it is.
ModelChangedKeepsFocus(ranges, sid, c, foc) ==
    IF ranges = <<>>
    THEN /\ active_match_index' = None
         /\ view_search_id' = view_search_id
         /\ cursor' = c
         /\ focus' = foc
         /\ query_editor_was_focused' = query_editor_was_focused
    ELSE LET is_new_search == sid # view_search_id
             c2 == IF is_new_search THEN 0 ELSE c
         IN  /\ active_match_index' = ActiveMatchIndex(ranges, c2)
             /\ view_search_id' = sid
             /\ cursor' = c2
             /\ focus' = foc
             /\ query_editor_was_focused' = query_editor_was_focused

\* model_changed that keeps the active match index when the model has no
\* match ranges.
ModelChangedKeepsIndex(ranges, sid, c, foc) ==
    IF ranges = <<>>
    THEN /\ active_match_index' = active_match_index
         /\ view_search_id' = view_search_id
         /\ cursor' = c
         /\ focus' = foc
         /\ query_editor_was_focused' = query_editor_was_focused
    ELSE LET is_new_search == sid # view_search_id
             c2 == IF is_new_search THEN 0 ELSE c
         IN  /\ active_match_index' = ActiveMatchIndex(ranges, c2)
             /\ view_search_id' = sid
             /\ cursor' = c2
             /\ focus' = IF is_new_search /\ foc = "query" THEN "results" ELSE foc
             /\ query_editor_was_focused' =
                    IF is_new_search /\ foc = "query" THEN FALSE
                    ELSE query_editor_was_focused

\* ProjectSearchView::model_changed, run when the model notifies: `ranges`
\* and `sid` are the model's match_ranges and search_id at that point, `c`
\* the cursor and `foc` the focus before the observer runs.
ModelChanged(ranges, sid, c, foc) ==
    IF ranges = <<>>
    THEN /\ active_match_index' = None
         /\ view_search_id' = view_search_id
         /\ cursor' = c
         /\ focus' = foc
         /\ query_editor_was_focused' = query_editor_was_focused
    ELSE LET is_new_search == sid # view_search_id
             c2 == IF is_new_search THEN 0 ELSE c
         IN  /\ active_match_index' = ActiveMatchIndex(ranges, c2)
             /\ view_search_id' = sid
             /\ cursor' = c2
             /\ focus' = IF is_new_search /\ foc = "query" THEN "results" ELSE foc
             /\ query_editor_was_focused' =
                    IF is_new_search /\ foc = "query" THEN FALSE
                    ELSE query_editor_was_focused

\* ProjectSearch::search that keeps the ranges of the previous search.
ModelSearchKeepsRanges(q, pend, tasks, nores) ==
    /\ search_id' = search_id + 1
    /\ search_history' = HistoryAdd(search_history, q.text)
    /\ active_query' = Some(q)
    /\ match_ranges' = match_ranges
    /\ pending_search' = Some(search_id + 1)
    /\ search_tasks' = DropTasks(tasks, pend)
                         \cup {[id |-> search_id + 1, kind |-> "text", pc |-> "start", n |-> 0]}
    /\ no_results' = nores

\* ProjectSearch::search(query): `pend`, `tasks` and `nores` are
\* pending_search, the live futures and no_results when it is called.
ModelSearch(q, pend, tasks, nores) ==
    /\ search_id' = search_id + 1
    /\ search_history' = HistoryAdd(search_history, q.text)
    /\ active_query' = Some(q)
    /\ match_ranges' = <<>>
    /\ pending_search' = Some(search_id + 1)
    /\ search_tasks' = DropTasks(tasks, pend)
                         \cup {[id |-> search_id + 1, kind |-> "text", pc |-> "start", n |-> 0]}
    /\ no_results' = nores

\* ProjectSearch::semantic_search that leaves search_id alone.
ModelSemanticSearchSameId(q, pend, tasks, nores) ==
    /\ search_id' = search_id
    /\ match_ranges' = <<>>
    /\ search_history' = HistoryAdd(search_history, q.text)
    /\ no_results' = None
    /\ active_query' = active_query
    /\ pending_search' = Some(search_id + 1)
    /\ search_tasks' = DropTasks(tasks, pend)
                         \cup {[id |-> search_id + 1, kind |-> "semantic",
                                pc |-> IF semantic_index THEN "results" ELSE "noindex", n |-> 0]}

\* ProjectSearch::semantic_search(inputs)
ModelSemanticSearch(q, pend, tasks, nores) ==
    /\ search_id' = search_id + 1
    /\ match_ranges' = <<>>
    /\ search_history' = HistoryAdd(search_history, q.text)
    /\ no_results' = None
    /\ active_query' = active_query
    /\ pending_search' = Some(search_id + 1)
    /\ search_tasks' = DropTasks(tasks, pend)
                         \cup {[id |-> search_id + 1, kind |-> "semantic",
                                pc |-> IF semantic_index THEN "results" ELSE "noindex", n |-> 0]}

\* ProjectSearchView::search that does not look at semantic_state.
ViewSearchWithoutState(mode, options, sem, pend, ranges, nores, tasks, c, ami) ==
    LET builds == TRUE
        q == BuiltQuery(included_files_editor, excluded_files_editor, query_editor,
                        mode, options)
    IN  /\ panels_with_errors' =
               IF builds
               THEN PanelsAfterBuild(panels_with_errors, included_files_editor,
                                     excluded_files_editor, query_editor, mode)
               ELSE panels_with_errors
        /\ IF builds /\ q # None
           THEN /\ search_id < search_budget
                /\ IF mode = "Semantic"
                   THEN ModelSemanticSearch(CHOOSE x \in q : TRUE, pend, tasks, nores)
                   ELSE ModelSearch(CHOOSE x \in q : TRUE, pend, tasks, nores)
                /\ ModelChanged(match_ranges', search_id', c, focus)
           ELSE /\ pending_search' = pend
                /\ match_ranges' = ranges
                /\ no_results' = nores
                /\ search_tasks' = tasks
                /\ cursor' = c
                /\ active_match_index' = ami
                /\ UNCHANGED <<search_id, search_history, active_query, view_search_id,
                               focus, query_editor_was_focused>>

\* ProjectSearchView::search in mode `mode` with options `options` and
\* semantic state `sem`; `pend`, `ranges`, `nores`, `tasks`, `c`, `ami` are
\* the model's pending_search, match_ranges, no_results, the live futures, the
\* cursor and active_match_index when it is called.
ViewSearch(mode, options, sem, pend, ranges, nores, tasks, c, ami) ==
    LET builds == ~(mode = "Semantic" /\ sem = None)
        q == BuiltQuery(included_files_editor, excluded_files_editor, query_editor,
                        mode, options)
    IN  /\ panels_with_errors' =
               IF builds
               THEN PanelsAfterBuild(panels_with_errors, included_files_editor,
                                     excluded_files_editor, query_editor, mode)
               ELSE panels_with_errors
        /\ IF builds /\ q # None
           THEN /\ search_id < search_budget
                /\ IF mode = "Semantic"
                   THEN ModelSemanticSearch(CHOOSE x \in q : TRUE, pend, tasks, nores)
                   ELSE ModelSearch(CHOOSE x \in q : TRUE, pend, tasks, nores)
                /\ ModelChanged(match_ranges', search_id', c, focus)
           ELSE /\ pending_search' = pend
                /\ match_ranges' = ranges
                /\ no_results' = nores
                /\ search_tasks' = tasks
                /\ cursor' = c
                /\ active_match_index' = ami
                /\ UNCHANGED <<search_id, search_history, active_query, view_search_id,
                               focus, query_editor_was_focused>>

\* ProjectSearchView::index_project
IndexProject(options) ==
    IF semantic_index
    THEN /\ search_options' = {}
         /\ indexing_started' = TRUE
         /\ semantic_state' = Some([index_status |-> "Indexing"])
    ELSE /\ search_options' = options
         /\ UNCHANGED <<indexing_started, semantic_state>>

\* clear_search that forgets match_ranges.
KeptRanges(ranges) == ranges

\* ProjectSearchView::clear_search, the match_ranges it leaves.
ClearedRanges(ranges) == <<>>

\* semantic_permissioned that does not look at the remembered answer.
SemanticPermissionedUncached ==
    IF semantic_index THEN "index" ELSE "false"

\* ProjectSearchView::semantic_permissioned: the answer the returned task will
\* give, "index" when it is the collaborator's project_previously_indexed.
SemanticPermissioned ==
    IF semantic_permissioned = Some(TRUE) THEN "true"
    ELSE IF semantic_permissioned = Some(FALSE) THEN "false"
    ELSE IF semantic_index THEN "index"
    ELSE "false"

\* ProjectSearchView::activate_search_mode(mode)
ActivateSearchModeBody(mode) ==
    /\ mode # current_mode
    /\ current_mode' = mode
    /\ IF mode = "Semantic"
       THEN /\ Len(consent_tasks) + Cardinality(search_prompt) < MaxConsentTasks
            /\ consent_tasks' = Append(consent_tasks,
                   [previous_mode |-> current_mode, pc |-> "permission",
                    has_permission |-> SemanticPermissioned])
            /\ pending_search' = None
            /\ no_results' = None
            /\ match_ranges' = ClearedRanges(match_ranges)
            /\ search_tasks' = DropTasks(search_tasks, pending_search)
            /\ cursor' = 0
            /\ active_match_index' = None
            /\ UNCHANGED <<search_id, search_history, active_query, view_search_id, focus,
                           query_editor_was_focused, semantic_state, panels_with_errors>>
       ELSE /\ semantic_state' = None
            /\ consent_tasks' = consent_tasks
            /\ ViewSearch(mode, search_options, None, None, ClearedRanges(match_ranges), None,
                          DropTasks(search_tasks, pending_search), 0, None)

\* The consent prompt is a modal dialog: no other input reaches the window
\* while it is on screen.
InputEnabled == search_prompt = None

view_frame == <<semantic_permissioned, semantic_index, previously_indexed, search_prompt,
               search_budget, feedback_vars, workspace_vars>>

\* ------------------------------------------------------------ user input
\* Typing in the query editor.
SetQuery(text) ==
    /\ InputEnabled
    /\ text # query_editor
    /\ query_editor' = text
    /\ UNCHANGED <<pending_search, match_ranges, active_query, search_id, search_history,
                   no_results, included_files_editor, excluded_files_editor, semantic_state,
                   search_options, panels_with_errors, active_match_index, view_search_id,
                   query_editor_was_focused, filters_enabled, current_mode, cursor, focus,
                   indexing_started, search_tasks, consent_tasks, view_frame>>

\* Typing in the include / exclude editors (shown when filters are enabled).
SetFilters(inc, exc) ==
    /\ InputEnabled
    /\ filters_enabled
    /\ <<inc, exc>> # <<included_files_editor, excluded_files_editor>>
    /\ included_files_editor' = inc
    /\ excluded_files_editor' = exc
    /\ UNCHANGED <<pending_search, match_ranges, active_query, search_id, search_history,
                   no_results, query_editor, semantic_state,
                   search_options, panels_with_errors, active_match_index, view_search_id,
                   query_editor_was_focused, filters_enabled, current_mode, cursor, focus,
                   indexing_started, search_tasks, consent_tasks, view_frame>>

\* ProjectSearchBar::toggle_filters -> ProjectSearchView::toggle_filters
ToggleFilters ==
    /\ InputEnabled
    /\ filters_enabled' = ~filters_enabled
    /\ UNCHANGED <<pending_search, match_ranges, active_query, search_id, search_history,
                   no_results, query_editor, included_files_editor, excluded_files_editor,
                   semantic_state, search_options, panels_with_errors, active_match_index,
                   view_search_id, query_editor_was_focused, current_mode, cursor, focus,
                   indexing_started, search_tasks, consent_tasks, view_frame>>

\* ProjectSearchBar::confirm -> ProjectSearchView::search
Confirm ==
    /\ InputEnabled
    /\ focus # "replacement"
    /\ ViewSearch(current_mode, search_options, semantic_state, pending_search, match_ranges,
                  no_results, search_tasks, cursor, active_match_index)
    /\ UNCHANGED <<query_editor, included_files_editor, excluded_files_editor, semantic_state,
                   search_options, filters_enabled, current_mode, indexing_started,
                   consent_tasks, view_frame>>

\* ProjectSearchBar::toggle_search_option: the option actions are registered
\* outside semantic mode, ToggleIncludeIgnored only with filters enabled.
ToggleSearchOption(option) ==
    /\ InputEnabled
    /\ current_mode # "Semantic"
    /\ option = "INCLUDE_IGNORED" => filters_enabled
    /\ LET options == IF option \in search_options THEN search_options \ {option}
                      ELSE search_options \cup {option}
       IN  /\ search_options' = options
           /\ ViewSearch(current_mode, options, semantic_state, pending_search, match_ranges,
                         no_results, search_tasks, cursor, active_match_index)
    /\ UNCHANGED <<query_editor, included_files_editor, excluded_files_editor, semantic_state,
                   filters_enabled, current_mode, indexing_started, consent_tasks, view_frame>>

\* ProjectSearchBar::activate_search_mode -> ProjectSearchView::activate_search_mode
ActivateSearchMode(mode) ==
    /\ InputEnabled
    /\ ActivateSearchModeBody(mode)
    /\ UNCHANGED <<query_editor, included_files_editor, excluded_files_editor,
                   search_options, filters_enabled, indexing_started, view_frame>>

\* --------------------------------------- the task of activate_search_mode
RemoveAt(seq, i) == [j \in 1..(Len(seq) - 1) |-> IF j < i THEN seq[j] ELSE seq[j + 1]]

consent_frame == <<pending_search, match_ranges, active_query, search_id, search_history,
                   no_results, query_editor, included_files_editor, excluded_files_editor,
                   panels_with_errors, active_match_index, view_search_id,
                   query_editor_was_focused, filters_enabled, current_mode, cursor, focus,
                   semantic_index, previously_indexed, search_tasks, search_budget,
                   feedback_vars, workspace_vars>>

\* has_permission.await? gave true: index_project runs in the same poll.
ConsentGranted(i) ==
    /\ i \in 1..Len(consent_tasks)
    /\ LET t == consent_tasks[i]
       IN  /\ t.pc = "permission"
           /\ \/ t.has_permission = "true"
              \/ t.has_permission = "index" /\ previously_indexed
    /\ consent_tasks' = RemoveAt(consent_tasks, i)
    /\ IndexProject(search_options)
    /\ UNCHANGED <<consent_frame, semantic_permissioned, search_prompt>>

\* has_permission.await? gave false: the consent prompt is opened.
ConsentPrompt(i) ==
    /\ i \in 1..Len(consent_tasks)
    /\ search_prompt = None
    /\ LET t == consent_tasks[i]
       IN  /\ t.pc = "permission"
           /\ \/ t.has_permission = "false"
              \/ t.has_permission = "index" /\ ~previously_indexed
           /\ search_prompt' = Some([t EXCEPT !.pc = "prompt"])
    /\ consent_tasks' = RemoveAt(consent_tasks, i)
    /\ UNCHANGED <<consent_frame, semantic_permissioned, semantic_state, search_options,
                   indexing_started>>

\* has_permission.await? gave an error (project_previously_indexed failed):
\* the task ends and the error is logged.
ConsentError(i) ==
    /\ i \in 1..Len(consent_tasks)
    /\ consent_tasks[i].pc = "permission"
    /\ consent_tasks[i].has_permission = "index"
    /\ consent_tasks' = RemoveAt(consent_tasks, i)
    /\ UNCHANGED <<consent_frame, semantic_permissioned, semantic_state, search_options,
                   indexing_started, search_prompt>>

\* The user answers 'Continue' (answer 0).
ConsentContinue ==
    /\ search_prompt # None
    /\ search_prompt' = None
    /\ semantic_permissioned' = Some(TRUE)
    /\ IndexProject(search_options)
    /\ UNCHANGED <<consent_frame, consent_tasks>>

\* A 'Cancel' arm that records the answer and leaves the mode as it is.
ConsentCancelKeepsMode ==
    /\ search_prompt # None
    /\ search_prompt' = None
    /\ semantic_permissioned' = Some(FALSE)
    /\ UNCHANGED <<consent_frame, consent_tasks, semantic_state, search_options,
                   indexing_started>>

\* The user answers 'Cancel': the view goes back to the previous mode.
ConsentCancel ==
    /\ search_prompt # None
    /\ search_prompt' = None
    /\ semantic_permissioned' = Some(FALSE)
    /\ LET t == CHOOSE x \in search_prompt : TRUE
       IN  IF t.previous_mode = current_mode
           THEN /\ UNCHANGED <<pending_search, match_ranges, active_query, search_id,
                               search_history, no_results, panels_with_errors,
                               active_match_index, view_search_id, query_editor_was_focused,
                               current_mode, cursor, focus, search_tasks, semantic_state,
                               consent_tasks>>
           ELSE ActivateSearchModeBody(t.previous_mode)
    /\ UNCHANGED <<query_editor, included_files_editor, excluded_files_editor, search_options,
                   filters_enabled, indexing_started, semantic_index, previously_indexed,
                   search_budget, feedback_vars, workspace_vars>>

\* The prompt goes away without an answer (answer.await? is an error).
ConsentDismissed ==
    /\ search_prompt # None
    /\ search_prompt' = None
    /\ UNCHANGED <<consent_frame, consent_tasks, semantic_permissioned, semantic_state,
                   search_options, indexing_started>>

\* ------------------------------------------- the task of ProjectSearch::search
task_frame == <<active_query, search_id, search_history, query_editor, included_files_editor,
                excluded_files_editor, semantic_state, semantic_permissioned, search_options,
                panels_with_errors, filters_enabled, current_mode, semantic_index,
                previously_indexed, indexing_started, consent_tasks, search_prompt,
                search_budget,
                feedback_vars, workspace_vars>>

view_observed == <<active_match_index, view_search_id, query_editor_was_focused, focus>>

Advance(t, pc, n) == (search_tasks \ {t}) \cup {[t EXCEPT !.pc = pc, !.n = n]}

\* First update of the task: the ranges and excerpts are cleared.
SearchTaskStart(t) ==
    /\ t \in search_tasks /\ t.kind = "text" /\ t.pc = "start"
    /\ match_ranges' = <<>>
    /\ cursor' = 0
    /\ no_results' = Some(TRUE)
    /\ search_tasks' = Advance(t, "matches", t.n)
    /\ UNCHANGED <<task_frame, view_observed, pending_search>>

\* matches.next() yields a buffer with anchors.
SearchTaskBatch(t) ==
    /\ t \in search_tasks /\ t.kind = "text" /\ t.pc = "matches"
    /\ t.n < MaxRanges
    /\ no_results' = Some(FALSE)
    /\ search_tasks' = Advance(t, "ranges", t.n)
    /\ UNCHANGED <<task_frame, view_observed, pending_search, match_ranges, cursor>>

\* ranges.next() yields a range: it is pushed.
SearchTaskRange(t) ==
    /\ t \in search_tasks /\ t.kind = "text" /\ t.pc = "ranges"
    /\ t.n < MaxRanges
    /\ match_ranges' = Append(match_ranges, [sid |-> t.id, n |-> t.n + 1])
    /\ search_tasks' = Advance(t, "ranges", t.n + 1)
    /\ UNCHANGED <<task_frame, view_observed, pending_search, no_results, cursor>>

\* The end of a batch without cx.notify().
SearchTaskBatchEndSilent(t) ==
    /\ t \in search_tasks /\ t.kind = "text" /\ t.pc = "ranges"
    /\ search_tasks' = Advance(t, "matches", t.n)
    /\ UNCHANGED <<task_frame, view_observed, pending_search, match_ranges, no_results, cursor>>

\* The ranges of the buffer are exhausted: observers are notified.
SearchTaskBatchEnd(t) ==
    /\ t \in search_tasks /\ t.kind = "text" /\ t.pc = "ranges"
    /\ search_tasks' = Advance(t, "matches", t.n)
    /\ ModelChanged(match_ranges, search_id, cursor, focus)
    /\ UNCHANGED <<task_frame, pending_search, match_ranges, no_results>>

\* The stream ends: pending_search is taken and observers are notified.
SearchTaskFinish(t) ==
    /\ t \in search_tasks /\ t.kind = "text" /\ t.pc = "matches"
    /\ pending_search' = None
    /\ search_tasks' = DropTasks(search_tasks \ {t}, pending_search)
    /\ ModelChanged(match_ranges, search_id, cursor, focus)
    /\ UNCHANGED <<task_frame, match_ranges, no_results>>

\* ---------------------------------- the task of ProjectSearch::semantic_search
\* search?.await.log_err()? gives the results: the excerpts are cleared.
SemanticTaskResults(t) ==
    /\ t \in search_tasks /\ t.kind = "semantic" /\ t.pc = "results"
    /\ no_results' = Some(TRUE)
    /\ cursor' = 0
    /\ search_tasks' = Advance(t, "matches", t.n)
    /\ UNCHANGED <<task_frame, view_observed, pending_search, match_ranges>>

\* There is no semantic index, or search_project fails: the task returns
\* without touching the model.
SemanticTaskFails(t) ==
    /\ t \in search_tasks /\ t.kind = "semantic" /\ t.pc \in {"noindex", "results"}
    /\ search_tasks' = search_tasks \ {t}
    /\ UNCHANGED <<task_frame, view_observed, pending_search, match_ranges, no_results, cursor>>

\* The next result: its excerpt stream is opened.
SemanticTaskBatch(t) ==
    /\ t \in search_tasks /\ t.kind = "semantic" /\ t.pc = "matches"
    /\ t.n < MaxRanges
    /\ no_results' = Some(FALSE)
    /\ search_tasks' = Advance(t, "ranges", t.n)
    /\ UNCHANGED <<task_frame, view_observed, pending_search, match_ranges, cursor>>

RECURSIVE NewRanges(_, _, _)
NewRanges(sid, from, k) ==
    IF k = 0 THEN <<>> ELSE <<[sid |-> sid, n |-> from]>> \o NewRanges(sid, from + 1, k - 1)

\* match_ranges.next() yields a range: it and the k - 1 ranges that try_next
\* finds ready are pushed, and observers are notified.
SemanticTaskRange(t, k) ==
    /\ t \in search_tasks /\ t.kind = "semantic" /\ t.pc = "ranges"
    /\ k >= 1 /\ t.n + k <= MaxRanges
    /\ match_ranges' = match_ranges \o NewRanges(t.id, t.n + 1, k)
    /\ search_tasks' = Advance(t, "ranges", t.n + k)
    /\ ModelChanged(match_ranges', search_id, cursor, focus)
    /\ UNCHANGED <<task_frame, pending_search, no_results>>

\* The excerpt stream of the result is exhausted.
SemanticTaskBatchEnd(t) ==
    /\ t \in search_tasks /\ t.kind = "semantic" /\ t.pc = "ranges"
    /\ search_tasks' = Advance(t, "matches", t.n)
    /\ UNCHANGED <<task_frame, view_observed, pending_search, match_ranges, no_results, cursor>>

\* All results are streamed: pending_search is taken, observers notified.
SemanticTaskFinish(t) ==
    /\ t \in search_tasks /\ t.kind = "semantic" /\ t.pc = "matches"
    /\ pending_search' = None
    /\ search_tasks' = DropTasks(search_tasks \ {t}, pending_search)
    /\ ModelChanged(match_ranges, search_id, cursor, focus)
    /\ UNCHANGED <<task_frame, match_ranges, no_results>>

\* ------------------------------------------------------------------- Next
\* The steps of the tasks spawned by the model and the view.
TaskStep ==
    \/ \E t \in search_tasks : SearchTaskStart(t)
    \/ \E t \in search_tasks : SearchTaskBatch(t)
    \/ \E t \in search_tasks : SearchTaskRange(t)
    \/ \E t \in search_tasks : SearchTaskBatchEnd(t)
    \/ \E t \in search_tasks : SearchTaskFinish(t)
    \/ \E t \in search_tasks : SemanticTaskResults(t)
    \/ \E t \in search_tasks : SemanticTaskFails(t)
    \/ \E t \in search_tasks : SemanticTaskBatch(t)
    \/ \E t \in search_tasks, k \in 1..MaxRanges : SemanticTaskRange(t, k)
    \/ \E t \in search_tasks : SemanticTaskBatchEnd(t)
    \/ \E t \in search_tasks : SemanticTaskFinish(t)

\* Searches, mode switches and the consent prompt, with the filter editors
\* and the search options as the view was created with them.
Next ==
    \/ \E text \in Queries : SetQuery(text)
    \/ Confirm
    \/ \E mode \in SearchModes : ActivateSearchMode(mode)
    \/ \E i \in 1..MaxConsentTasks : ConsentGranted(i)
    \/ \E i \in 1..MaxConsentTasks : ConsentPrompt(i)
    \/ \E i \in 1..MaxConsentTasks : ConsentError(i)
    \/ ConsentContinue
    \/ ConsentCancel
    \/ ConsentDismissed
    \/ TaskStep

Spec == Init /\ [][Next]_vars

\* The same view with the filters toggled on (ProjectSearchView::toggle_filters)
\* and "(" typed into the query editor (a text query, not a regex), on a
\* project that has a semantic index and was indexed before, so that semantic
\* mode needs no consent.  Here the filter editors are edited.
InputSearchInit ==
    /\ pending_search = None
    /\ match_ranges = <<>>
    /\ active_query = None
    /\ search_id = 0
    /\ search_history = [history |-> <<>>, selected |-> None]
    /\ no_results = None
    /\ query_editor = "("
    /\ included_files_editor = <<>>
    /\ excluded_files_editor = <<>>
    /\ semantic_state = None
    /\ semantic_permissioned = None
    /\ search_options = {}
    /\ panels_with_errors = {}
    /\ active_match_index = None
    /\ view_search_id = 0
    /\ query_editor_was_focused = TRUE
    /\ filters_enabled = TRUE
    /\ current_mode = "Text"
    /\ cursor = 0
    /\ focus = "query"
    /\ semantic_index = TRUE
    /\ previously_indexed = TRUE
    /\ indexing_started = FALSE
    /\ search_tasks = {}
    /\ consent_tasks = <<>>
    /\ search_prompt = None
    /\ search_budget = MaxInputSearches
    /\ items = <<>>

InputInit == InputSearchInit /\ FeedbackClosed

InputNext ==
    \/ \E f \in FilterTexts : SetFilters(f[1], f[2])
    \/ Confirm
    \/ \E mode \in SearchModes : ActivateSearchMode(mode)
    \/ \E i \in 1..MaxConsentTasks : ConsentGranted(i)
    \/ TaskStep

InputSpec == InputInit /\ [][InputNext]_vars

\* ------------------------------------------------ the toolbar and consent
\* ProjectSearchBar::set_active_pane_item with this view: the toolbar is
\* handed the view when its tab becomes the active pane item.
SetActivePaneItem ==
    /\ InputEnabled
    /\ IF current_mode = "Semantic"
       THEN IndexProject(search_options)
       ELSE UNCHANGED <<search_options, indexing_started, semantic_state>>
    /\ UNCHANGED <<pending_search, match_ranges, active_query, search_id, search_history,
                   no_results, query_editor, included_files_editor, excluded_files_editor,
                   panels_with_errors, active_match_index, view_search_id,
                   query_editor_was_focused, filters_enabled, current_mode, cursor, focus,
                   search_tasks, consent_tasks, view_frame>>

\* A fresh view as in SearchInit, its tab activated and left at will.
ConsentInit ==
    /\ pending_search = None
    /\ match_ranges = <<>>
    /\ active_query = None
    /\ search_id = 0
    /\ search_history = [history |-> <<>>, selected |-> None]
    /\ no_results = None
    /\ query_editor = ""
    /\ included_files_editor = <<>>
    /\ excluded_files_editor = <<>>
    /\ semantic_state = None
    /\ semantic_permissioned = None
    /\ search_options = {}
    /\ panels_with_errors = {}
    /\ active_match_index = None
    /\ view_search_id = 0
    /\ query_editor_was_focused = TRUE
    /\ filters_enabled = FALSE
    /\ current_mode = "Text"
    /\ cursor = 0
    /\ focus = "query"
    /\ semantic_index \in BOOLEAN
    /\ previously_indexed \in BOOLEAN
    /\ indexing_started = FALSE
    /\ search_tasks = {}
    /\ consent_tasks = <<>>
    /\ search_prompt = None
    /\ search_budget = MaxInputSearches
    /\ items = <<>>
    /\ FeedbackClosed

ConsentNext ==
    \/ SetActivePaneItem
    \/ Confirm
    \/ \E mode \in SearchModes : ActivateSearchMode(mode)
    \/ \E i \in 1..MaxConsentTasks : ConsentGranted(i)
    \/ \E i \in 1..MaxConsentTasks : ConsentPrompt(i)
    \/ \E i \in 1..MaxConsentTasks : ConsentError(i)
    \/ ConsentContinue
    \/ ConsentCancel
    \/ ConsentDismissed
    \/ TaskStep

ConsentSpec == ConsentInit /\ [][ConsentNext]_vars

\* ------------------------------------------------------- history navigation
\* SearchHistory::next: the entry after the cursor, to which the cursor moves;
\* None at the newest entry, without a cursor and in an empty history.
SearchHistoryNext(h) ==
    IF h.selected = None \/ h.selected = Some(Len(h.history))
    THEN [result |-> None, h |-> h]
    ELSE LET i == CHOOSE x \in h.selected : TRUE
         IN  [result |-> Some(h.history[i + 1]), h |-> [h EXCEPT !.selected = Some(i + 1)]]

\* SearchHistory::previous: the entry before the cursor, or the newest one
\* without a cursor; None at the oldest entry and in an empty history.
SearchHistoryPrevious(h) ==
    IF h.history = <<>> \/ h.selected = Some(1)
    THEN [result |-> None, h |-> h]
    ELSE LET i == IF h.selected = None THEN Len(h.history)
                  ELSE (CHOOSE x \in h.selected : TRUE) - 1
         IN  [result |-> Some(h.history[i]), h |-> [h EXCEPT !.selected = Some(i)]]

\* SearchHistory::current: the entry at the cursor.
SearchHistoryCurrent(h) ==
    IF h.selected = None THEN None ELSE Some(h.history[CHOOSE x \in h.selected : TRUE])

\* SearchHistory::reset_selection
SearchHistoryResetSelection(h) == [h EXCEPT !.selected = None]

\* next_history_query that starts over at the oldest entry after the newest.
NextQueryWraps(h) ==
    LET next == SearchHistoryNext(h)
    IN  IF next.result # None
        THEN [query |-> CHOOSE q \in next.result : TRUE, h |-> next.h]
        ELSE IF h.history = <<>> THEN [query |-> "", h |-> SearchHistoryResetSelection(h)]
        ELSE [query |-> h.history[1], h |-> [h EXCEPT !.selected = Some(1)]]

\* ProjectSearchBar::next_history_query: the text passed to set_query and the
\* history it leaves.
NextQuery(h) ==
    LET next == SearchHistoryNext(h)
    IN  IF next.result # None
        THEN [query |-> CHOOSE q \in next.result : TRUE, h |-> next.h]
        ELSE [query |-> "", h |-> SearchHistoryResetSelection(h)]

\* previous_history_query that goes from the oldest entry to the newest.
PreviousQueryWraps(h, text) ==
    IF text = "" /\ SearchHistoryCurrent(h) # None
    THEN [query |-> SearchHistoryCurrent(h), h |-> h]
    ELSE IF h.selected = Some(1)
    THEN [query |-> Some(h.history[Len(h.history)]),
          h |-> [h EXCEPT !.selected = Some(Len(h.history))]]
    ELSE [query |-> SearchHistoryPrevious(h).result, h |-> SearchHistoryPrevious(h).h]

\* previous_history_query that records the text it leaves.
PreviousQueryRecords(h, text) ==
    IF text = "" /\ SearchHistoryCurrent(h) # None
    THEN [query |-> SearchHistoryCurrent(h), h |-> h]
    ELSE LET prev == SearchHistoryPrevious(h)
         IN  IF prev.result = None THEN [query |-> None, h |-> prev.h]
             ELSE [query |-> prev.result,
                   h |-> [prev.h EXCEPT !.history = Append(@, CHOOSE q \in prev.result : TRUE)]]

\* ProjectSearchBar::previous_history_query with `text` in the query editor:
\* the text passed to set_query (None: set_query is not called) and the
\* history it leaves.
PreviousQuery(h, text) ==
    IF text = "" /\ SearchHistoryCurrent(h) # None
    THEN [query |-> SearchHistoryCurrent(h), h |-> h]
    ELSE [query |-> SearchHistoryPrevious(h).result, h |-> SearchHistoryPrevious(h).h]

history_frame == <<pending_search, match_ranges, active_query, search_id, no_results,
                   included_files_editor, excluded_files_editor, semantic_state,
                   search_options, panels_with_errors, active_match_index, view_search_id,
                   query_editor_was_focused, filters_enabled, current_mode, cursor, focus,
                   indexing_started, search_tasks, consent_tasks, view_frame>>

\* ProjectSearchBar::next_history_query
NextHistoryQuery ==
    /\ InputEnabled
    /\ search_history' = NextQuery(search_history).h
    /\ query_editor' = NextQuery(search_history).query
    /\ UNCHANGED history_frame

\* ProjectSearchBar::previous_history_query
PreviousHistoryQuery ==
    /\ InputEnabled
    /\ LET new == PreviousQuery(search_history, query_editor)
       IN  /\ search_history' = new.h
           /\ query_editor' = IF new.query = None THEN query_editor
                              ELSE CHOOSE q \in new.query : TRUE
    /\ UNCHANGED history_frame

\* Query strings typed while the history is walked; the empty one too.
HistoryQueries == {"", "a", "("}

\* A fresh view in text mode: queries are typed, confirmed, and the history
\* is walked while the searches stream their results.
HistoryInit ==
    /\ pending_search = None
    /\ match_ranges = <<>>
    /\ active_query = None
    /\ search_id = 0
    /\ search_history = [history |-> <<>>, selected |-> None]
    /\ no_results = None
    /\ query_editor = ""
    /\ included_files_editor = <<>>
    /\ excluded_files_editor = <<>>
    /\ semantic_state = None
    /\ semantic_permissioned = None
    /\ search_options = {}
    /\ panels_with_errors = {}
    /\ active_match_index = None
    /\ view_search_id = 0
    /\ query_editor_was_focused = TRUE
    /\ filters_enabled = FALSE
    /\ current_mode = "Text"
    /\ cursor = 0
    /\ focus = "query"
    /\ semantic_index = TRUE
    /\ previously_indexed = TRUE
    /\ indexing_started = FALSE
    /\ search_tasks = {}
    /\ consent_tasks = <<>>
    /\ search_prompt = None
    /\ search_budget = MaxSearches
    /\ items = <<>>
    /\ FeedbackClosed

HistoryNavNext ==
    \/ NextHistoryQuery
    \/ PreviousHistoryQuery
    \/ \E text \in HistoryQueries : SetQuery(text)
    \/ Confirm
    \/ \E t \in search_tasks : SearchTaskStart(t)
    \/ \E t \in search_tasks : SearchTaskBatch(t)
    \/ \E t \in search_tasks : SearchTaskRange(t)
    \/ \E t \in search_tasks : SearchTaskBatchEnd(t)
    \/ \E t \in search_tasks : SearchTaskFinish(t)

HistorySpec == HistoryInit /\ [][HistoryNavNext]_vars

\* --------------------------------------------------------- match navigation
\* Editor::match_index_for_direction(matches, current_index, direction, 1)
\* with `len` matches: one match on, in a ring.
match_index_for_direction(len, current_index, direction) ==
    IF direction = "Next" THEN (current_index + 1) % len
    ELSE (current_index + len - 1) % len

\* select_match that selects the active match again.
SelectedMatchStays(index, ranges, direction) ==
    IF index = None THEN None
    ELSE Some(CHOOSE i \in index : TRUE)

\* ProjectSearchView::select_match: the position of the match it selects,
\* None when it selects nothing.  (match_ranges[new_index] panics for an
\* index beyond the ranges.)
SelectedMatch(index, ranges, direction) ==
    IF index = None THEN None
    ELSE Some(match_index_for_direction(Len(ranges), CHOOSE i \in index : TRUE, direction))

match_frame == <<pending_search, match_ranges, active_query, search_id, search_history,
                 no_results, query_editor, included_files_editor, excluded_files_editor,
                 semantic_state, search_options, panels_with_errors, view_search_id,
                 query_editor_was_focused, filters_enabled, current_mode, focus,
                 indexing_started, search_tasks, consent_tasks, view_frame>>

\* The prev / next match buttons and SelectPrevMatch / SelectNextMatch:
\* select_match, then update_match_index on the SelectionsChanged event.
SelectMatch(direction) ==
    /\ InputEnabled
    /\ LET selected == SelectedMatch(active_match_index, match_ranges, direction)
       IN  IF selected = None
           THEN UNCHANGED <<cursor, active_match_index>>
           ELSE /\ cursor' = CHOOSE c \in selected : TRUE
                /\ active_match_index' =
                       ActiveMatchIndex(match_ranges, CHOOSE c \in selected : TRUE)
    /\ UNCHANGED match_frame

\* A fresh view on a project whose semantic index exists and was built
\* before, with "a" typed into the query editor.
MatchInit ==
    /\ pending_search = None
    /\ match_ranges = <<>>
    /\ active_query = None
    /\ search_id = 0
    /\ search_history = [history |-> <<>>, selected |-> None]
    /\ no_results = None
    /\ query_editor = "a"
    /\ included_files_editor = <<>>
    /\ excluded_files_editor = <<>>
    /\ semantic_state = None
    /\ semantic_permissioned = None
    /\ search_options = {}
    /\ panels_with_errors = {}
    /\ active_match_index = None
    /\ view_search_id = 0
    /\ query_editor_was_focused = TRUE
    /\ filters_enabled = FALSE
    /\ current_mode = "Text"
    /\ cursor = 0
    /\ focus = "query"
    /\ semantic_index = TRUE
    /\ previously_indexed = TRUE
    /\ indexing_started = FALSE
    /\ search_tasks = {}
    /\ consent_tasks = <<>>
    /\ search_prompt = None
    /\ search_budget = MaxSearches
    /\ items = <<>>
    /\ FeedbackClosed

MatchNext ==
    \/ \E direction \in {"Next", "Prev"} : SelectMatch(direction)
    \/ Confirm
    \/ \E mode \in SearchModes : ActivateSearchMode(mode)
    \/ \E i \in 1..MaxConsentTasks : ConsentGranted(i)
    \/ TaskStep

MatchSpec == MatchInit /\ [][MatchNext]_vars

\* ------------------------------------------------------- several views
\* The view on screen with its model and the futures they spawned.
ViewState ==
    [pending_search |-> pending_search, match_ranges |-> match_ranges,
     active_query |-> active_query, search_id |-> search_id,
     search_history |-> search_history, no_results |-> no_results,
     query_editor |-> query_editor, included_files_editor |-> included_files_editor,
     excluded_files_editor |-> excluded_files_editor, semantic_state |-> semantic_state,
     semantic_permissioned |-> semantic_permissioned, search_options |-> search_options,
     panels_with_errors |-> panels_with_errors, active_match_index |-> active_match_index,
     view_search_id |-> view_search_id,
     query_editor_was_focused |-> query_editor_was_focused,
     filters_enabled |-> filters_enabled, current_mode |-> current_mode,
     cursor |-> cursor, focus |-> focus, search_tasks |-> search_tasks,
     consent_tasks |-> consent_tasks]

\* The view `v` becomes the one on screen.
LoadView(v) ==
    /\ pending_search' = v.pending_search
    /\ match_ranges' = v.match_ranges
    /\ active_query' = v.active_query
    /\ search_id' = v.search_id
    /\ search_history' = v.search_history
    /\ no_results' = v.no_results
    /\ query_editor' = v.query_editor
    /\ included_files_editor' = v.included_files_editor
    /\ excluded_files_editor' = v.excluded_files_editor
    /\ semantic_state' = v.semantic_state
    /\ semantic_permissioned' = v.semantic_permissioned
    /\ search_options' = v.search_options
    /\ panels_with_errors' = v.panels_with_errors
    /\ active_match_index' = v.active_match_index
    /\ view_search_id' = v.view_search_id
    /\ query_editor_was_focused' = v.query_editor_was_focused
    /\ filters_enabled' = v.filters_enabled
    /\ current_mode' = v.current_mode
    /\ cursor' = v.cursor
    /\ focus' = v.focus
    /\ search_tasks' = v.search_tasks
    /\ consent_tasks' = v.consent_tasks

\* A view that another item of the pane has taken the focus from.
Backgrounded(v) == [v EXCEPT !.focus = "none"]

\* The ActiveSettings entry of the project: None until a view of the project
\* has toggled a filter, an option or the mode, then the settings of the view
\* that did so last.
Settings ==
    {[search_options |-> {"CASE_SENSITIVE"}, current_mode |-> "Regex", filters_enabled |-> TRUE],
     [search_options |-> {}, current_mode |-> "Semantic", filters_enabled |-> FALSE]}
ActiveSettings == {None} \cup {Some(st) : st \in Settings}

\* ProjectSearchView::new over the current model, as clone_on_split builds it.
NewViewSharesModel(settings) ==
    [ViewState EXCEPT !.semantic_state = None, !.semantic_permissioned = None,
                      !.panels_with_errors = {}, !.query_editor_was_focused = FALSE,
                      !.consent_tasks = <<>>]

\* ProjectSearchView::new(model, cx, settings) over ProjectSearch::new(project):
\* the view reads mode, options and filters from the settings, and
\* model_changed on the empty model leaves no active match.
NewView(settings) ==
    [pending_search |-> None, match_ranges |-> <<>>, active_query |-> None,
     search_id |-> 0, search_history |-> [history |-> <<>>, selected |-> None],
     no_results |-> None, query_editor |-> "", included_files_editor |-> <<>>,
     excluded_files_editor |-> <<>>, semantic_state |-> None,
     semantic_permissioned |-> None,
     search_options |-> IF settings = None THEN {}
                        ELSE (CHOOSE st \in settings : TRUE).search_options,
     panels_with_errors |-> {}, active_match_index |-> None, view_search_id |-> 0,
     query_editor_was_focused |-> FALSE,
     filters_enabled |-> IF settings = None THEN FALSE
                         ELSE (CHOOSE st \in settings : TRUE).filters_enabled,
     current_mode |-> IF settings = None THEN "Text"
                      ELSE (CHOOSE st \in settings : TRUE).current_mode,
     cursor |-> 0, focus |-> "results", search_tasks |-> {}, consent_tasks |-> <<>>]

\* ProjectSearchView::focus_query_editor
FocusQueryEditor(v) == [v EXCEPT !.query_editor_was_focused = TRUE, !.focus = "query"]

workspace_frame == <<semantic_index, previously_indexed, indexing_started, search_prompt,
                     search_budget, feedback_vars>>

\* ProjectSearchView::deploy (workspace::NewSearch): `query` is the query
\* suggestion of the active item's editor, `settings` the ActiveSettings
\* entry of the project.
Deploy(query, settings) ==
    /\ InputEnabled
    /\ items = <<>>
    /\ items' = Append(items, Backgrounded(ViewState))
    /\ LET search == NewView(settings)
           queried == IF query = "" THEN search ELSE [search EXCEPT !.query_editor = query]
       IN  LoadView(FocusQueryEditor(queried))
    /\ UNCHANGED workspace_frame

\* Entries of the worktree: a directory, a file, and a directory whose path
\* is not valid UTF-8 (path.to_str() is None).
WorktreeEntries ==
    {[is_dir |-> TRUE, path |-> Some("dir")], [is_dir |-> FALSE, path |-> Some("file")],
     [is_dir |-> TRUE, path |-> None]}

\* new_search_in_directory without the is_dir check.
DirectorySearchAnyEntry(dir_entry) ==
    IF dir_entry.path = None THEN None
    ELSE Some(FocusQueryEditor(
             [NewView(None) EXCEPT
                 !.included_files_editor = <<CHOOSE filter_str \in dir_entry.path : TRUE>>,
                 !.filters_enabled = TRUE]))

\* ProjectSearchView::new_search_in_directory: the view it opens, None when
\* it returns early.
DirectorySearch(dir_entry) ==
    IF ~dir_entry.is_dir THEN None
    ELSE IF dir_entry.path = None THEN None
    ELSE Some(FocusQueryEditor(
             [NewView(None) EXCEPT
                 !.included_files_editor = <<CHOOSE filter_str \in dir_entry.path : TRUE>>,
                 !.filters_enabled = TRUE]))

\* ProjectSearchView::new_search_in_directory(workspace, dir_entry)
NewSearchInDirectory(dir_entry) ==
    /\ InputEnabled
    /\ items = <<>>
    /\ IF DirectorySearch(dir_entry) = None
       THEN UNCHANGED <<search_vars, items>>
       ELSE /\ items' = Append(items, Backgrounded(ViewState))
            /\ LoadView(CHOOSE search \in DirectorySearch(dir_entry) : TRUE)
    /\ UNCHANGED workspace_frame

\* The user activates the tab of the i-th other view: the pane focuses the
\* view's focus handle, that of the results editor (370-374).
ActivateItem(i) ==
    /\ InputEnabled
    /\ i \in 1..Len(items)
    /\ items' = [items EXCEPT ![i] = Backgrounded(ViewState)]
    /\ LoadView([items[i] EXCEPT !.focus = "results"])
    /\ UNCHANGED workspace_frame

\* A pair of views: the one on screen and the one a new search is opened
\* from.  The view in the background keeps its futures; they reach only its
\* own model and view, and the model runs them while its tab is active.
WorkspaceNext ==
    \/ \E query \in {"", "("}, settings \in ActiveSettings : Deploy(query, settings)
    \/ \E dir_entry \in WorktreeEntries : NewSearchInDirectory(dir_entry)
    \/ \E i \in 1..Len(items) : ActivateItem(i)
    \/ Confirm
    \/ \E t \in search_tasks : SearchTaskStart(t)
    \/ \E t \in search_tasks : SearchTaskBatch(t)
    \/ \E t \in search_tasks : SearchTaskRange(t)
    \/ \E t \in search_tasks : SearchTaskBatchEnd(t)
    \/ \E t \in search_tasks : SearchTaskFinish(t)

WorkspaceSpec == MatchInit /\ [][WorkspaceNext]_vars

\* ============================================================ feedback modal
\* cfg(not(debug_assertions)): the release build.  With DEV_MODE the request
\* is replaced by a timer that ends in SEND_SUCCESS_IN_DEV_MODE.
DEV_MODE == FALSE
SEND_SUCCESS_IN_DEV_MODE == TRUE
\* FEEDBACK_CHAR_LIMIT: RangeInclusive<i32> = 10..=5000
FEEDBACK_CHAR_LIMIT_start == 10
FEEDBACK_CHAR_LIMIT_end == 5000

\* A feedback text of `lead` whitespace characters, `core` characters from
\* the first to the last non-whitespace one, and `trail` whitespace characters.
Text(lead, core, trail) == [lead |-> lead, core |-> core, trail |-> trail]

\* Texts typed into the feedback editor while validation is studied.
FormTexts == {Text(0, 9, 0), Text(0, 10, 0), Text(0, 5000, 0), Text(0, 5001, 0),
              Text(5, 0, 5)}
\* Texts typed into the email editor while validation is studied.
FormEmails == {<<>>, <<"a">>, <<"a", "@", "b", ".", "c", "o", "m">>,
               <<"a", "&", "b", ".", "c", "o", "m">>, <<"a", "@", "b", ".", "c">>}
\* Texts typed while a submission is followed through.
SubmitTexts == {Text(0, 9, 0), Text(0, 10, 0)}
SubmitEmails == {<<>>, <<"a">>, <<"a", "@", "b", ".", "c", "o", "m">>}

\* Buffer::len() as i32: the cast is exact for a buffer shorter than 2^31
\* bytes, as every text here is.
TextLen(text) == text.lead + text.core + text.trail
\* str::trim: the length of the trimmed text
TrimmedLen(text) == text.core
\* Editor::text_option of the email editor
EmailTextOption(email) == IF email = <<>> THEN None ELSE Some(email)
\* Editor::text_option(..).is_some() of the feedback editor
HasFeedback(text) == TrimmedLen(text) > 0

\* Character classes of EMAIL_REGEX.
Lower == {"a", "b", "c", "m", "o"}
IsAlnum(c) == c \in Lower
IsWordChar(c) == IsAlnum(c) \/ c = "_"
IsLocalChar(c) == IsAlnum(c) \/ c \in {".", "_", "%", "+", "-"}
IsDomainChar(c) == IsAlnum(c) \/ c \in {".", "-"}
IsTldChar(c) == c \in Lower \/ c = "|"
\* \b between position i and i + 1 of s (0 is the start, Len(s) the end).
WordBoundary(s, i) ==
    LET before == i >= 1 /\ IsWordChar(s[i])
        after == i < Len(s) /\ IsWordChar(s[i + 1])
    IN  before # after
\* Regex::new(EMAIL_REGEX).unwrap().is_match(s): some substring st..en is
\* local part, "@", domain, ".", two or more TLD characters, with a word
\* boundary on both sides.
EmailRegexIsMatch(s) ==
    \E st \in 1..Len(s), at \in 1..Len(s), dot \in 1..Len(s), en \in 1..Len(s) :
        /\ st < at /\ at + 1 < dot /\ dot + 2 <= en
        /\ s[at] = "@" /\ s[dot] = "."
        /\ \A k \in st..(at - 1) : IsLocalChar(s[k])
        /\ \A k \in (at + 1)..(dot - 1) : IsDomainChar(s[k])
        /\ \A k \in (dot + 1)..en : IsTldChar(s[k])
        /\ WordBoundary(s, st - 1) /\ WordBoundary(s, en)

\* SubmissionState values.
CanSubmit == [kind |-> "CanSubmit", issues |-> <<>>]
AwaitingSubmission == [kind |-> "AwaitingSubmission", issues |-> <<>>]
InvalidState(issues) == [kind |-> "InvalidState", issues |-> issues]

\* FeedbackModal::awaiting_submission / can_submit
awaiting_submission(state) == state = Some(AwaitingSubmission)
can_submit(state) == state = Some(CanSubmit)

\* update_submission_state whose limit excludes its upper end.
update_submission_state_exclusive(state, email, count) ==
    IF awaiting_submission(state) THEN state
    ELSE LET valid_email_address ==
                 IF EmailTextOption(email) = None THEN TRUE ELSE EmailRegexIsMatch(email)
             email_issue == IF ~valid_email_address THEN <<"EmailAddress">> ELSE <<>>
             count_issue == IF ~(count >= FEEDBACK_CHAR_LIMIT_start /\ count < FEEDBACK_CHAR_LIMIT_end)
                            THEN <<"CharacterCount">> ELSE <<>>
             invalid_state_issues == email_issue \o count_issue
         IN  IF invalid_state_issues = <<>> THEN Some(CanSubmit)
             ELSE Some(InvalidState(invalid_state_issues))

\* update_submission_state that runs the pattern on an empty email field too.
update_submission_state_email_required(state, email, count) ==
    IF awaiting_submission(state) THEN state
    ELSE LET valid_email_address == EmailRegexIsMatch(email)
             email_issue == IF ~valid_email_address THEN <<"EmailAddress">> ELSE <<>>
             count_issue == IF ~(count >= FEEDBACK_CHAR_LIMIT_start /\ count <= FEEDBACK_CHAR_LIMIT_end)
                            THEN <<"CharacterCount">> ELSE <<>>
             invalid_state_issues == email_issue \o count_issue
         IN  IF invalid_state_issues = <<>> THEN Some(CanSubmit)
             ELSE Some(InvalidState(invalid_state_issues))

\* FeedbackModal::update_submission_state: the submission_state it leaves.
update_submission_state(state, email, count) ==
    IF awaiting_submission(state) THEN state
    ELSE LET valid_email_address ==
                 IF EmailTextOption(email) = None THEN TRUE ELSE EmailRegexIsMatch(email)
             email_issue == IF ~valid_email_address THEN <<"EmailAddress">> ELSE <<>>
             count_issue == IF ~(count >= FEEDBACK_CHAR_LIMIT_start /\ count <= FEEDBACK_CHAR_LIMIT_end)
                            THEN <<"CharacterCount">> ELSE <<>>
             invalid_state_issues == email_issue \o count_issue
         IN  IF invalid_state_issues = <<>> THEN Some(CanSubmit)
             ELSE Some(InvalidState(invalid_state_issues))

\* ------------------------------------------------- window and modal layer
\* A prompt is a modal dialog: no other input reaches the window while one
\* is on screen.
FeedbackInputEnabled ==
    /\ \A t \in submit_tasks : t.pc # "prompt"
    /\ error_prompts = 0
    /\ ~discard_prompt

feedback_frame == <<search_vars, workspace_vars, submit_budget, error_log>>

\* The modal layer drops the modal: the view is gone, and the WeakView held
\* by every future spawned from it no longer upgrades.
ModalDismissed ==
    /\ modal_open' = FALSE
    /\ needs_render' = FALSE
    /\ feedback_editor' = Text(0, 0, 0)
    /\ email_address_editor' = <<>>
    /\ submission_state' = None
    /\ dismiss_modal' = FALSE
    /\ character_count' = 0

DropView(tasks) == {[t EXCEPT !.view = FALSE] : t \in tasks}

\* FeedbackModal::register: GiveFeedback -> workspace.toggle_modal ->
\* FeedbackModal::new.
GiveFeedback ==
    /\ ~modal_open
    /\ FeedbackInputEnabled
    /\ modal_open' = TRUE
    /\ email_address_editor' = IF kv_store = None THEN <<>> ELSE CHOOSE e \in kv_store : TRUE
    /\ feedback_editor' = Text(0, 0, 0)
    /\ submission_state' = None
    /\ dismiss_modal' = FALSE
    /\ character_count' = 0
    /\ needs_render' = TRUE
    /\ UNCHANGED <<submit_tasks, submissions, error_prompts, discard_prompt, kv_store,
                   feedback_frame>>

\* Render for FeedbackModal: update_submission_state, then the element tree.
Render ==
    /\ modal_open
    /\ needs_render
    /\ submission_state' = update_submission_state(submission_state, email_address_editor,
                                                   character_count)
    /\ needs_render' = FALSE
    /\ UNCHANGED <<feedback_editor, email_address_editor, dismiss_modal, character_count,
                   modal_open, submit_tasks, submissions, error_prompts, discard_prompt,
                   kv_store, feedback_frame>>

\* Typing in the feedback editor: the EditorEvent::Edited subscription.
EditFeedback(text) ==
    /\ modal_open /\ ~needs_render /\ FeedbackInputEnabled
    /\ text # feedback_editor
    /\ feedback_editor' = text
    /\ character_count' = TextLen(text)
    /\ needs_render' = TRUE
    /\ UNCHANGED <<email_address_editor, submission_state, dismiss_modal, modal_open,
                   submit_tasks, submissions, error_prompts, discard_prompt, kv_store,
                   feedback_frame>>

\* Typing in the email editor: the editor notifies and the window is redrawn.
EditEmail(email) ==
    /\ modal_open /\ ~needs_render /\ FeedbackInputEnabled
    /\ email # email_address_editor
    /\ email_address_editor' = email
    /\ needs_render' = TRUE
    /\ UNCHANGED <<feedback_editor, submission_state, dismiss_modal, character_count,
                   modal_open, submit_tasks, submissions, error_prompts, discard_prompt,
                   kv_store, feedback_frame>>

\* A submit button that is never disabled.
SubmitEnabledAlways(state) == TRUE

\* The submit button as rendered: disabled unless can_submit().
SubmitEnabled(state) == can_submit(state)

\* Click on the submit button: FeedbackModal::submit up to the prompt.
Submit ==
    /\ modal_open /\ ~needs_render /\ FeedbackInputEnabled
    /\ SubmitEnabled(submission_state)
    /\ submissions < submit_budget
    /\ submissions' = submissions + 1
    /\ submit_tasks' = submit_tasks \cup
           {[id |-> submissions + 1, feedback_text |-> TrimmedLen(feedback_editor),
             email |-> EmailTextOption(email_address_editor), pc |-> "prompt", view |-> TRUE]}
    /\ UNCHANGED <<feedback_editor, email_address_editor, submission_state, dismiss_modal,
                   character_count, modal_open, needs_render, error_prompts, discard_prompt,
                   kv_store, feedback_frame>>

\* An on_before_dismiss that always returns true.
CancelDismisses ==
    /\ modal_open /\ ~needs_render /\ FeedbackInputEnabled
    /\ ModalDismissed
    /\ submit_tasks' = DropView(submit_tasks)
    /\ UNCHANGED <<discard_prompt, submissions, error_prompts, kv_store, feedback_frame>>

\* FeedbackModal::cancel / the cancel button: DismissEvent, then
\* on_before_dismiss.
Cancel ==
    /\ modal_open /\ ~needs_render /\ FeedbackInputEnabled
    /\ IF dismiss_modal \/ ~HasFeedback(feedback_editor)
       THEN /\ ModalDismissed
            /\ submit_tasks' = DropView(submit_tasks)
            /\ UNCHANGED discard_prompt
       ELSE /\ discard_prompt' = TRUE
            /\ UNCHANGED <<feedback_editor, email_address_editor, submission_state,
                           dismiss_modal, character_count, modal_open, needs_render,
                           submit_tasks>>
    /\ UNCHANGED <<submissions, error_prompts, kv_store, feedback_frame>>

\* 'Yes' to 'Discard feedback?': dismiss_modal is set and DismissEvent emitted.
DiscardYes ==
    /\ discard_prompt
    /\ discard_prompt' = FALSE
    /\ IF modal_open
       THEN /\ ModalDismissed
            /\ submit_tasks' = DropView(submit_tasks)
       ELSE UNCHANGED <<feedback_editor, email_address_editor, submission_state,
                        dismiss_modal, character_count, modal_open, needs_render,
                        submit_tasks>>
    /\ UNCHANGED <<submissions, error_prompts, kv_store, feedback_frame>>

\* 'No' to 'Discard feedback?', or the prompt goes away unanswered.
DiscardNo ==
    /\ discard_prompt
    /\ discard_prompt' = FALSE
    /\ UNCHANGED <<feedback_editor, email_address_editor, submission_state, dismiss_modal,
                   character_count, modal_open, needs_render, submit_tasks, submissions,
                   error_prompts, kv_store, feedback_frame>>

\* 'OK' on the error dialog.
ErrorPromptOk ==
    /\ error_prompts > 0
    /\ error_prompts' = error_prompts - 1
    /\ UNCHANGED <<feedback_editor, email_address_editor, submission_state, dismiss_modal,
                   character_count, modal_open, needs_render, submit_tasks, submissions,
                   discard_prompt, kv_store, feedback_frame>>

\* --------------------------------------- the task of FeedbackModal::submit
submit_frame == <<feedback_editor, email_address_editor, dismiss_modal, character_count,
                  modal_open, submissions, discard_prompt, feedback_frame>>

Step(t, pc) == (submit_tasks \ {t}) \cup {[t EXCEPT !.pc = pc]}

\* 'Yes, Submit!': write_kvp is called with the email, or delete_kvp without.
AnswerYes(t) ==
    /\ t \in submit_tasks /\ t.pc = "prompt"
    /\ submit_tasks' = Step(t, "persist")
    /\ UNCHANGED <<submit_frame, submission_state, needs_render, error_prompts, kv_store>>

\* 'No', or the prompt goes away unanswered: the future ends.
AnswerNo(t) ==
    /\ t \in submit_tasks /\ t.pc = "prompt"
    /\ submit_tasks' = submit_tasks \ {t}
    /\ UNCHANGED <<submit_frame, submission_state, needs_render, error_prompts, kv_store>>

\* The store has run write_kvp / delete_kvp; a failure is dropped by .ok().
KvDone(t, ok) ==
    /\ t \in submit_tasks /\ t.pc = "persist"
    /\ kv_store' = IF ok THEN t.email ELSE kv_store
    /\ submit_tasks' = Step(t, "persisted")
    /\ UNCHANGED <<submit_frame, submission_state, needs_render, error_prompts>>

\* A submit task that sends before the store has answered.
PersistedEarly(t) == t.pc \in {"persist", "persisted"}

\* The store's answer has resumed the future.
Persisted(t) == t.pc = "persisted"

\* The future resumes: AwaitingSubmission is set and submit_feedback sends
\* the request (or, with DEV_MODE, starts its timer).
BeginSubmission(t) ==
    /\ t \in submit_tasks /\ Persisted(t)
    /\ IF t.view
       THEN /\ submission_state' = Some(AwaitingSubmission)
            /\ needs_render' = TRUE
       ELSE UNCHANGED <<submission_state, needs_render>>
    /\ submit_tasks' = Step(t, IF DEV_MODE THEN "timer" ELSE "request")
    /\ UNCHANGED <<submit_frame, error_prompts, kv_store>>

\* submit_feedback returns Ok: a success status, or the DEV_MODE timer.
RequestSucceeds(t) ==
    /\ t \in submit_tasks
    /\ t.pc = "request" \/ (t.pc = "timer" /\ SEND_SUCCESS_IN_DEV_MODE)
    /\ IF t.view
       THEN /\ ModalDismissed
            /\ submit_tasks' = DropView(submit_tasks \ {t})
       ELSE /\ submit_tasks' = submit_tasks \ {t}
            /\ UNCHANGED <<feedback_editor, email_address_editor, submission_state,
                           dismiss_modal, character_count, modal_open, needs_render>>
    /\ UNCHANGED <<submissions, error_prompts, discard_prompt, kv_store, feedback_frame>>

\* The Err arm that also dismisses the modal.
FailureDismisses(t) ==
    /\ ModalDismissed
    /\ error_prompts' = error_prompts + 1
    /\ submit_tasks' = DropView(submit_tasks \ {t})

\* The Err arm that shows the dialog and leaves submission_state as it is.
FailureKeepsAwaiting(t) ==
    /\ error_prompts' = error_prompts + 1
    /\ submission_state' = submission_state
    /\ needs_render' = TRUE
    /\ submit_tasks' = submit_tasks \ {t}
    /\ UNCHANGED <<feedback_editor, email_address_editor, dismiss_modal, character_count,
                   modal_open>>

\* The Err arm of submit: the error dialog, CanSubmit, notify.
FailureShown(t) ==
    /\ error_prompts' = error_prompts + 1
    /\ submission_state' = Some(CanSubmit)
    /\ needs_render' = TRUE
    /\ submit_tasks' = submit_tasks \ {t}
    /\ UNCHANGED <<feedback_editor, email_address_editor, dismiss_modal, character_count,
                   modal_open>>

\* submit_feedback returns Err: the transport failed ("transport"), the
\* status was not a success ("status"), or the DEV_MODE timer ends in failure.
\* The error is logged whether or not the modal is still there.
RequestFails(t, cause) ==
    /\ t \in submit_tasks
    /\ t.pc = "request" \/ (t.pc = "timer" /\ ~SEND_SUCCESS_IN_DEV_MODE)
    /\ cause \in {"transport", "status"}
    /\ error_log' = error_log + 1
    /\ IF t.view
       THEN FailureShown(t)
       ELSE /\ submit_tasks' = submit_tasks \ {t}
            /\ UNCHANGED <<feedback_editor, email_address_editor, submission_state,
                           dismiss_modal, character_count, modal_open, needs_render,
                           error_prompts>>
    /\ UNCHANGED <<submissions, discard_prompt, kv_store, search_vars, workspace_vars,
                   submit_budget>>

SubmitTaskStep ==
    \/ \E t \in submit_tasks : AnswerYes(t)
    \/ \E t \in submit_tasks : AnswerNo(t)
    \/ \E t \in submit_tasks, ok \in BOOLEAN : KvDone(t, ok)
    \/ \E t \in submit_tasks : BeginSubmission(t)
    \/ \E t \in submit_tasks : RequestSucceeds(t)
    \/ \E t \in submit_tasks, cause \in {"transport", "status"} : RequestFails(t, cause)

\* ------------------------------------------------------ the feedback modal
FeedbackInit == InputSearchInit /\ FeedbackClosed

FeedbackNext ==
    \/ GiveFeedback
    \/ Render
    \/ \E text \in SubmitTexts : EditFeedback(text)
    \/ \E email \in SubmitEmails : EditEmail(email)
    \/ Submit
    \/ Cancel
    \/ DiscardYes
    \/ DiscardNo
    \/ ErrorPromptOk
    \/ SubmitTaskStep

FeedbackSpec == FeedbackInit /\ [][FeedbackNext]_vars

\* The form alone, with the texts around the limits of the validation.
FormNext ==
    \/ GiveFeedback
    \/ Render
    \/ \E text \in FormTexts : EditFeedback(text)
    \/ \E email \in FormEmails : EditEmail(email)
    \/ Submit
    \/ ErrorPromptOk
    \/ SubmitTaskStep

FormInit ==
    /\ InputSearchInit
    /\ feedback_editor = Text(0, 0, 0)
    /\ email_address_editor = <<>>
    /\ submission_state = None
    /\ dismiss_modal = FALSE
    /\ character_count = 0
    /\ modal_open = FALSE
    /\ needs_render = FALSE
    /\ submit_tasks = {}
    /\ submissions = 0
    /\ error_prompts = 0
    /\ discard_prompt = FALSE
    /\ kv_store = None
    /\ error_log = 0
    /\ submit_budget = MaxFormSubmits

FormSpec == FormInit /\ [][FormNext]_vars

\* The ways out of the modal.  The feedback editor holds ten characters of
\* feedback or ten of whitespace; both pass the character count.
DismissTexts == {Text(0, 10, 0), Text(10, 0, 0)}

DismissNext ==
    \/ GiveFeedback
    \/ Render
    \/ \E text \in DismissTexts : EditFeedback(text)
    \/ Submit
    \/ Cancel
    \/ DiscardYes
    \/ DiscardNo
    \/ ErrorPromptOk
    \/ SubmitTaskStep

DismissSpec == FeedbackInit /\ [][DismissNext]_vars

\* submit_feedback returns: the response or the transport error has arrived.
Response ==
    \E t \in submit_tasks :
        RequestSucceeds(t) \/ \E cause \in {"transport", "status"} : RequestFails(t, cause)

\* The same, with every request that was sent completing.
DismissLiveSpec == DismissSpec /\ WF_vars(Response)

\* ================================================================ claims
\* The step is a call of ProjectSearchView::activate_search_mode with a mode
\* other than the current one: from the mode buttons, or from the 'Cancel'
\* answer to the consent prompt.
ActivateStep ==
    \/ \E mode \in SearchModes : ActivateSearchMode(mode)
    \/ ConsentCancel /\ current_mode' # current_mode

\* The step is a call of ProjectSearchView::search: from confirm, from
\* toggle_search_option, or from a switch to text / regex mode.
ViewSearchStep ==
    \/ Confirm
    \/ \E option \in Options : ToggleSearchOption(option)
    \/ ActivateStep /\ current_mode' # "Semantic"

\* The step is one in which the view dispatches a search to the model:
\* ProjectSearchView::search ran, build_search_query returned a query and, in
\* semantic mode, the semantic state is set.
SearchInvoked ==
    /\ ViewSearchStep
    /\ FailingPanel(included_files_editor, excluded_files_editor, query_editor,
                    current_mode') = None
    /\ current_mode' = "Semantic" => semantic_state' # None

\* C1: results of a superseded search are never applied: every range in
\* match_ranges was produced by the search whose id is the model's current
\* search_id, and no future of an older search is left to deliver more.
C1_NoStaleRanges ==
    /\ \A i \in DOMAIN match_ranges : match_ranges[i].sid = search_id
    /\ \A t \in search_tasks : t.id = search_id

\* The second search has delivered a range, not yet displayed, after the first
\* one had delivered ranges that the view displayed.
C1_Witness ==
    /\ search_id = 2
    /\ view_search_id = 1
    /\ \E i \in DOMAIN match_ranges : match_ranges[i].sid = 2

\* C2: search_id grows by exactly 1 in every step that invokes
\* ProjectSearch::search or ProjectSearch::semantic_search and is unchanged by
\* every other step.
C2_SearchIdMonotonic ==
    [][search_id' = IF SearchInvoked THEN search_id + 1 ELSE search_id]_vars

\* Two searches were invoked and the second has run to its end with matches
\* on display.
C2_Witness ==
    /\ search_id = 2
    /\ view_search_id = 2
    /\ match_ranges # <<>>
    /\ pending_search = None

\* C3: every search invocation leaves match_ranges empty.
C3_RangesReplaced ==
    [][SearchInvoked => match_ranges' = <<>>]_vars

\* The second search has just been invoked, after the view displayed the
\* ranges of the first: its future has not run yet.
C3_Witness ==
    /\ search_id = 2
    /\ view_search_id = 1
    /\ \E t \in search_tasks : t.id = 2 /\ t.pc \in {"start", "results"}
    /\ match_ranges = <<>>

\* C4: after any search invocation, active_query is the query of that
\* invocation.
C4_ActiveQueryReplaced ==
    [][SearchInvoked =>
          active_query' = BuiltQuery(included_files_editor, excluded_files_editor,
                                     query_editor, current_mode', search_options')]_vars

\* C5: a call of activate_search_mode with a mode other than the current one
\* leaves match_ranges empty and active_match_index None.
C5_ModeSwitchClears ==
    [][ActivateStep => match_ranges' = <<>> /\ active_match_index' = None]_vars

\* The mode was switched to semantic in a view that had displayed the matches
\* of the latest search: the search is cleared and none was started.
C5_Witness ==
    /\ current_mode = "Semantic"
    /\ search_id >= 1
    /\ view_search_id = search_id
    /\ pending_search = None
    /\ no_results = None
    /\ match_ranges = <<>>
    /\ active_match_index = None

\* C6: when build_search_query stops at a field that fails to parse, that
\* panel is in panels_with_errors afterwards and nothing is dispatched:
\* search_id, the history and active_query are unchanged and no prompt is
\* opened; when ProjectSearchView::search was called on its own (confirm),
\* match_ranges and pending_search are unchanged too.
C6_ParseFailureAborts ==
    [][LET failing == FailingPanel(included_files_editor, excluded_files_editor,
                                   query_editor, current_mode')
           built == \/ Confirm /\ ~(current_mode = "Semantic" /\ semantic_state = None)
                    \/ ActivateStep /\ current_mode' # "Semantic"
       IN  failing # None /\ built =>
             /\ failing \subseteq panels_with_errors'
             /\ UNCHANGED <<search_id, search_history, active_query, search_prompt>>
             /\ Confirm => UNCHANGED <<match_ranges, pending_search, search_tasks>>]_vars

\* A confirm whose query could not be built has marked a panel while a search
\* was streaming its matches.
C6_Witness ==
    /\ panels_with_errors # {}
    /\ FailingPanel(included_files_editor, excluded_files_editor, query_editor,
                    current_mode) \subseteq panels_with_errors
    /\ FailingPanel(included_files_editor, excluded_files_editor, query_editor,
                    current_mode) # None
    /\ match_ranges # <<>>
    /\ pending_search # None

\* The form as the claims describe a valid one: character_count in 10..=5000
\* and the email field empty or matching the email pattern.
FormValid ==
    /\ character_count >= 10 /\ character_count <= 5000
    /\ email_address_editor = <<>> \/ EmailRegexIsMatch(email_address_editor)

\* The checks that fail, in the order update_submission_state lists them.
FailingChecks ==
    (IF email_address_editor = <<>> \/ EmailRegexIsMatch(email_address_editor)
     THEN <<>> ELSE <<"EmailAddress">>)
    \o (IF character_count >= 10 /\ character_count <= 5000
        THEN <<>> ELSE <<"CharacterCount">>)

TaskIds(tasks) == {t.id : t \in tasks}
\* The submit futures that take the step, as they are before / after it.
Entering(pc) == {u \in submit_tasks' : u.pc = pc /\ \A t \in submit_tasks : t.id = u.id => t.pc # pc}
Before(u) == {t \in submit_tasks : t.id = u.id}
\* The step spawns a submit future.
SubmissionStarted == TaskIds(submit_tasks') \ TaskIds(submit_tasks) # {}

\* C7: when update_submission_state runs (in render) and no submission is
\* awaited, the state becomes CanSubmit exactly when character_count is in
\* 10..=5000 and the email field is empty or matches the pattern, and
\* otherwise InvalidState listing exactly the failing checks.
C7_SubmissionStateValidated ==
    [][Render /\ ~awaiting_submission(submission_state) =>
          submission_state' = IF FormValid THEN Some(CanSubmit)
                              ELSE Some(InvalidState(FailingChecks))]_vars

\* The form was rendered with 5000 characters and a well-formed email.
C7_Witness ==
    /\ modal_open /\ ~needs_render
    /\ character_count = 5000
    /\ email_address_editor = <<"a", "@", "b", ".", "c", "o", "m">>
    /\ submission_state = Some(CanSubmit)

\* C8 as stated: in no step taken while the form is invalid is a request
\* issued or the key-value store written or deleted from.
C8_NoBackendWhileInvalid ==
    [][modal_open /\ ~FormValid =>
          /\ Entering("request") = {}
          /\ Entering("persist") = {}
          /\ kv_store' = kv_store]_vars

\* C8, amended: a submission starts only from a rendered, valid form, and a
\* request or a store operation belongs to a submission started earlier, with
\* the email captured then (empty or matching the pattern).
C8_ValidationBlocksSubmission ==
    [][/\ SubmissionStarted => modal_open /\ ~needs_render /\ FormValid
       /\ \A u \in Entering("persist") \cup Entering("persisted") \cup Entering("request") :
             /\ Before(u) # {}
             /\ u.email = None \/ \E e \in u.email : EmailRegexIsMatch(e)]_vars

\* An invalid form is on screen after a first submission was confirmed and
\* its request issued.
C8_Witness ==
    /\ modal_open /\ ~needs_render /\ ~FormValid
    /\ \E t \in submit_tasks : t.pc = "request"

C10_FailureAlwaysShown ==
    [][(\E t \in submit_tasks, cause \in {"transport", "status"} : RequestFails(t, cause)) =>
          /\ modal_open'
          /\ error_prompts' = error_prompts + 1
          /\ submission_state' = Some(CanSubmit)]_vars

\* C10, amended: when a request fails whose modal is still open, the modal
\* stays open, an error dialog is added and the state is set to CanSubmit;
\* when the modal was dismissed meanwhile nothing is shown; either way the
\* step issues no request, and a new submit future starts only by a click on
\* the submit button.
C10_FailureShownWhileOpen ==
    [][/\ \A t \in submit_tasks, cause \in {"transport", "status"} :
             RequestFails(t, cause) =>
                 /\ t.view =>
                       /\ modal_open /\ modal_open'
                       /\ error_prompts' = error_prompts + 1
                       /\ submission_state' = Some(CanSubmit)
                 /\ ~t.view => UNCHANGED <<modal_open, error_prompts, submission_state>>
                 /\ Entering("request") = {}
                 /\ submit_tasks' \subseteq submit_tasks
       /\ SubmissionStarted => Submit]_vars

\* A request has failed: the modal is open with the error dialog on screen,
\* the state is CanSubmit and no submit future is left.
C10_Witness ==
    /\ modal_open
    /\ error_prompts = 1
    /\ submission_state = Some(CanSubmit)
    /\ needs_render
    /\ submit_tasks = {}
    /\ submissions = 1

\* C11: the feedback_text of every request that has been issued has between
\* 10 and 5000 characters.  FeedbackModal::submit sends the trimmed text.
C11_FeedbackTextBounded ==
    \A t \in submit_tasks :
        t.pc = "request" =>
            /\ t.feedback_text >= FEEDBACK_CHAR_LIMIT_start
            /\ t.feedback_text <= FEEDBACK_CHAR_LIMIT_end

\* C12: on a project that was not indexed before, index_project is started
\* only by the 'Continue' answer to the consent prompt or after it.
C12_ConsentPrecedesIndexing ==
    [][~previously_indexed /\ ~indexing_started /\ indexing_started' =>
          ConsentContinue \/ semantic_permissioned = Some(TRUE)]_vars

\* The consent task spawned by this step (a switch to semantic mode).
SpawnedConsentTasks ==
    {consent_tasks'[i] : i \in (Len(consent_tasks) + 1)..Len(consent_tasks')}

\* C13 as claimed: once the prompt has been answered ('Continue' or 'Cancel'),
\* the task of a later switch to semantic mode has the permission, and a task
\* that has the permission does not open the prompt.
C13_PromptOnce ==
    [][/\ ActivateSearchMode("Semantic") /\ semantic_permissioned # None =>
              \A t \in SpawnedConsentTasks : t.has_permission = "true"
       /\ search_prompt = None /\ search_prompt' # None =>
              \A t \in search_prompt' : t.has_permission # "true"]_vars

\* C13 amended: a switch to semantic mode made while the remembered answer
\* is 'Continue' shows no prompt; one made while it is 'Cancel' asks again.
C13_PromptOnceAfterContinue ==
    [][/\ ActivateSearchMode("Semantic") /\ semantic_permissioned = Some(TRUE) =>
              \A t \in SpawnedConsentTasks : t.has_permission = "true"
       /\ ActivateSearchMode("Semantic") /\ semantic_permissioned = Some(FALSE) =>
              \A t \in SpawnedConsentTasks : t.has_permission = "false"
       /\ search_prompt = None /\ search_prompt' # None =>
              \A t \in search_prompt' : t.has_permission # "true"]_vars

\* The view was switched to semantic mode after 'Continue': its task has the
\* permission and will index without asking.
C13_Witness ==
    /\ semantic_permissioned = Some(TRUE)
    /\ current_mode = "Semantic"
    /\ search_prompt = None
    /\ \E i \in 1..Len(consent_tasks) : consent_tasks[i].has_permission = "true"

\* The entries of the history and the position of its cursor.
Entries == search_history.history
Selected == search_history.selected

\* C14: with at least one submitted search, next_history_query at the newest
\* entry empties the query editor and resets the cursor, and so does every
\* next_history_query after it.
C14_NextAfterLastIsEmpty ==
    [][/\ NextHistoryQuery
       /\ Entries # <<>>
       /\ Selected = Some(Len(Entries)) \/ Selected = None
       => /\ query_editor' = ""
          /\ search_history' = [history |-> Entries, selected |-> None]]_vars

\* Searches were submitted and next_history_query has gone past the newest.
C14_Witness ==
    /\ Len(Entries) = 2
    /\ Selected = None
    /\ query_editor = ""
    /\ Entries[2] # ""

\* C15: with an empty query editor and a non-empty history,
\* previous_history_query sets the query to the most recently submitted one.
C15_PreviousFromEmptyIsNewest ==
    [][PreviousHistoryQuery /\ query_editor = "" /\ Entries # <<>>
       => query_editor' = Entries[Len(Entries)]]_vars

\* C16: with the cursor at the oldest entry and that entry in the query
\* editor, previous_history_query changes neither the text nor the cursor.
C16_PreviousBoundedAtOldest ==
    [][/\ PreviousHistoryQuery
       /\ Selected = Some(1)
       /\ query_editor = Entries[1]
       => UNCHANGED <<query_editor, search_history>>]_vars

\* previous_history_query has walked back to the oldest of two entries.
C16_Witness ==
    /\ Len(Entries) = 2
    /\ Selected = Some(1)
    /\ query_editor = Entries[1]
    /\ Entries[1] # Entries[2]
    /\ match_ranges = <<>>

\* C17: a dispatched search appends its query string to the history and puts
\* the cursor on it; with an entry of the history shown in the query editor
\* and the cursor on it, previous_history_query goes to the entry submitted
\* before it and next_history_query to the one submitted after it (entries
\* with different texts, so that the move shows in the editor).
C17_HistoryRecordedAndWalked ==
    [][/\ SearchInvoked =>
              search_history' = [history |-> Append(Entries, query_editor),
                                 selected |-> Some(Len(Entries) + 1)]
       /\ \A i \in 2..Len(Entries) :
              Selected = Some(i) /\ query_editor = Entries[i] /\ Entries[i - 1] # Entries[i]
              => PreviousQuery(search_history, query_editor) =
                     [query |-> Some(Entries[i - 1]),
                      h |-> [search_history EXCEPT !.selected = Some(i - 1)]]
       /\ \A i \in 1..(Len(Entries) - 1) :
              Selected = Some(i) /\ query_editor = Entries[i] /\ Entries[i + 1] # Entries[i]
              => NextQuery(search_history) =
                     [query |-> Entries[i + 1],
                      h |-> [search_history EXCEPT !.selected = Some(i + 1)]]]_vars

\* C18: next_history_query and previous_history_query change only the query
\* text and the cursor: the options, the entries, search_id, match_ranges and
\* active_query stay, and no search is dispatched.
C18_NavigationFrame ==
    [][NextHistoryQuery \/ PreviousHistoryQuery
       => /\ Entries' = Entries
          /\ UNCHANGED <<search_options, search_id, match_ranges, active_query,
                         pending_search, search_tasks, no_results>>]_vars

\* The history was walked back while the newest search had ranges on screen.
C18_Witness ==
    /\ Len(Entries) = 2
    /\ Selected = Some(1)
    /\ query_editor = Entries[1]
    /\ match_ranges # <<>>
    /\ active_query # None
    /\ search_id = 2

\* The step ends a batch of a running search: the model notifies its observers.
BatchNotified ==
    \E t \in search_tasks :
        \/ SearchTaskBatchEnd(t) \/ SearchTaskFinish(t) \/ SemanticTaskFinish(t)
        \/ \E k \in 1..MaxRanges : SemanticTaskRange(t, k)

\* C19: in every step of a running search match_ranges only grows at its
\* end, it holds the ranges of the search in the order they were delivered,
\* and after each batch the view has been told: its active match and its
\* search_id follow the ranges.
C19_ResultsStreamed ==
    [][TaskStep =>
          /\ Len(match_ranges') >= Len(match_ranges)
          /\ SubSeq(match_ranges', 1, Len(match_ranges)) = match_ranges
          /\ \A i \in 1..Len(match_ranges') : match_ranges'[i] = [sid |-> search_id, n |-> i]
          /\ BatchNotified =>
                 /\ active_match_index' = None <=> match_ranges' = <<>>
                 /\ match_ranges' # <<>> => view_search_id' = search_id]_vars

\* A text search has delivered two batches and is still running.
C19_Witness ==
    /\ pending_search # None
    /\ Len(match_ranges) = MaxRanges
    /\ active_match_index = Some(0)
    /\ view_search_id = search_id
    /\ \E t \in search_tasks : t.kind = "text" /\ t.pc = "matches" /\ t.n = MaxRanges

C26_ActiveIndexInBounds ==
    \A i \in active_match_index : match_ranges # <<>> /\ i >= 0 /\ i < Len(match_ranges)

\* The last of several matches is the active one while a later search of the
\* same view is still streaming results.
C26_Witness ==
    /\ \E i \in active_match_index : i > 0 /\ i + 1 = Len(match_ranges)
    /\ pending_search # None
    /\ search_id > 1

SearchStep ==
    \/ Confirm
    \/ \E t \in search_tasks :
          \/ SearchTaskStart(t) \/ SearchTaskBatch(t) \/ SearchTaskRange(t)
          \/ SearchTaskBatchEnd(t) \/ SearchTaskFinish(t)

\* C22: deploy opens a view over a model of its own: the new view has no
\* results and no search dispatched, the existing view keeps its query text,
\* match ranges and results, and a search in the view on screen leaves the
\* other view as it is.
C22_DeployIsSeparate ==
    [][/\ \A query \in {"", "("}, settings \in ActiveSettings :
            Deploy(query, settings) =>
               /\ match_ranges' = <<>> /\ active_match_index' = None /\ no_results' = None
               /\ pending_search' = None /\ search_tasks' = {} /\ active_query' = None
               /\ search_id' = 0 /\ search_budget' = search_budget
               /\ Len(items') = Len(items) + 1
               /\ LET existing == items'[Len(items')]
                  IN  /\ existing.query_editor = query_editor
                      /\ existing.match_ranges = match_ranges
                      /\ existing.active_match_index = active_match_index
                      /\ existing.no_results = no_results
                      /\ existing.pending_search = pending_search
                      /\ existing.search_tasks = search_tasks
       /\ SearchStep => items' = items]_vars

\* The deployed view, opened with the query "(", and the view it was opened
\* from both hold results, of different searches.
C22_Witness ==
    /\ query_editor = "(" /\ match_ranges # <<>> /\ search_id = 1
    /\ items # <<>>
    /\ items[1].query_editor = "a" /\ items[1].match_ranges # <<>>
    /\ Len(items[1].match_ranges) # Len(match_ranges)

\* The view new_search_in_directory opens for `dir_entry`, as a condition on
\* the step.
OpensDirectorySearch(dir_entry) ==
    /\ included_files_editor' = <<CHOOSE filter_str \in dir_entry.path : TRUE>>
    /\ excluded_files_editor' = <<>>
    /\ filters_enabled'
    /\ focus' = "query"
    /\ pending_search' = None /\ search_tasks' = {} /\ search_id' = 0
    /\ match_ranges' = <<>> /\ search_budget' = search_budget
    /\ Len(items') = Len(items) + 1

\* C23 as stated: new_search_in_directory opens no view for an entry that is
\* not a directory, and for every directory entry a view with the directory
\* path in the include editor, an empty exclude editor, filters enabled, the
\* query editor focused and no search dispatched.
C23_EveryDirectoryOpensSearch ==
    [][\A dir_entry \in WorktreeEntries :
         /\ ~dir_entry.is_dir => DirectorySearch(dir_entry) = None
         /\ dir_entry.is_dir =>
               /\ DirectorySearch(dir_entry) # None
               /\ NewSearchInDirectory(dir_entry) => OpensDirectorySearch(dir_entry)]_vars

\* C23, amended: the view is opened for a directory entry whose path is valid
\* UTF-8; for a file, and for a directory whose path is not, no view is opened.
C23_Utf8DirectoryOpensSearch ==
    [][\A dir_entry \in WorktreeEntries :
         /\ ~dir_entry.is_dir \/ dir_entry.path = None =>
               /\ DirectorySearch(dir_entry) = None
               /\ NewSearchInDirectory(dir_entry) => UNCHANGED vars
         /\ dir_entry.is_dir /\ dir_entry.path # None =>
               /\ DirectorySearch(dir_entry) # None
               /\ NewSearchInDirectory(dir_entry) => OpensDirectorySearch(dir_entry)]_vars

\* The view opened on the directory is on screen, nothing searched yet.
C23_Witness ==
    /\ included_files_editor = <<"dir">> /\ excluded_files_editor = <<>>
    /\ filters_enabled /\ focus = "query"
    /\ items # <<>> /\ search_id = 0 /\ search_tasks = {}

\* The render reports an issue with the email address.
EmailIssueReported ==
    \E st \in submission_state' :
        \E k \in 1..Len(st.issues) : st.issues[k] = "EmailAddress"

C27_PendingSearchEnds ==
    \A id \in pending_search : \E t \in search_tasks : t.id = id

\* The futures of FeedbackModal::submit whose request is in flight.
RequestsInFlight == {t \in submit_tasks : t.pc = "request"}

\* C28: at most one feedback request is in flight at any time.
C28_OneRequestInFlight == Cardinality(RequestsInFlight) <= 1

\* The form, awaiting a submission, stops doing so in this step.
LeavesAwaiting ==
    /\ submission_state = Some(AwaitingSubmission)
    /\ submission_state' # Some(AwaitingSubmission)

\* C29 as stated, its last part: AwaitingSubmission is left only by the
\* arrival of the response, success or failure.
C29_LeftOnlyByResponse == [][LeavesAwaiting => Response]_vars

\* C29, amended: once the request completes the form leaves
\* AwaitingSubmission, by the dismissal of the modal on success and by
\* CanSubmit on failure; otherwise AwaitingSubmission is left only when the
\* user cancels the modal, at once or through the 'Discard feedback?' prompt.
C29_SubmissionResolves ==
    /\ [][/\ LeavesAwaiting => Response \/ Cancel \/ DiscardYes
          /\ \A t \in submit_tasks :
                t.view /\ submission_state = Some(AwaitingSubmission) =>
                   /\ RequestSucceeds(t) => ~modal_open' /\ submission_state' = None
                   /\ \A cause \in {"transport", "status"} :
                         RequestFails(t, cause) =>
                            modal_open' /\ submission_state' = Some(CanSubmit)]_vars
    /\ (submission_state = Some(AwaitingSubmission)
           ~> submission_state # Some(AwaitingSubmission))

\* A failed request has put the form back to CanSubmit, the error dialog is
\* on screen.
C29_Witness ==
    /\ modal_open /\ submission_state = Some(CanSubmit)
    /\ error_prompts > 0 /\ error_log > 0 /\ submit_tasks = {}

C31_DeclineRestoresMode ==
    [][ConsentCancel =>
          /\ semantic_permissioned' = Some(FALSE)
          /\ indexing_started' = indexing_started
          /\ \A t \in search_prompt :
                /\ t.previous_mode # "Semantic"
                /\ current_mode' = t.previous_mode]_vars

\* The prompt was declined on a project never indexed: the view is back in
\* a mode other than Semantic and nothing is indexed.
C31_Witness ==
    /\ semantic_permissioned = Some(FALSE)
    /\ search_prompt = None
    /\ current_mode # "Semantic"
    /\ ~indexing_started /\ semantic_state = None

\* ProjectSearch::semantic_search has run in this step: its future is new.
SemanticDispatched == \E t \in search_tasks' \ search_tasks : t.kind = "semantic"

\* C32: a semantic search is dispatched only in semantic mode with
\* semantic_state set, that is after index_project has started indexing for
\* the view; confirm in semantic mode with semantic_state unset leaves
\* search_id, the history, match_ranges and the pending search as they were.
C32_SemanticSearchNeedsState ==
    [][/\ SemanticDispatched =>
             current_mode = "Semantic" /\ semantic_state # None /\ indexing_started
       /\ Confirm /\ current_mode = "Semantic" /\ semantic_state = None =>
             UNCHANGED <<search_id, search_history, match_ranges, pending_search,
                         search_tasks, active_query, no_results>>]_vars

\* A semantic search is under way in a view whose semantic_state is set.
C32_Witness ==
    /\ current_mode = "Semantic" /\ semantic_state # None /\ indexing_started
    /\ \E t \in search_tasks : t.kind = "semantic" /\ pending_search = Some(t.id)
====
